---- MODULE Spec2Model ----
(***************************************************************************)
(* Model of the combinations API: CombinationsService (labeling, group     *)
(* choice, cartesian product, generateAndStore) and DatabaseService        *)
(* (withTransaction, insertResponse, insertItems, insertCombinations).     *)
(*                                                                         *)
(* A JavaScript string is modelled as the sequence of its UTF-16 code      *)
(* units, so that template literals, slice, parseInt, sort and join are    *)
(* computed as the code computes them.                                     *)
(***************************************************************************)
EXTENDS Integers, Sequences, FiniteSets, TLC

VARIABLES
    op,         \* pure functions: the function applied ("none" before)
    arg,        \* pure functions: its input
    ret,        \* pure functions: its result
    pc,         \* generateAndStore: where the invocation stands
    calls,      \* number of invocations started
    input,      \* the invocation's input { items, length }
    groups,     \* const groups (generateAndStore)
    allCombos,  \* const allCombos (generateAndStore)
    responseId, \* const responseId (the transaction function)
    chunkStart, \* let i (insertCombinations)
    caught,     \* err of withTransaction's catch block
    outcome,    \* what generateAndStore returned or threw
    log,        \* the calls the invocation made (its own functions, the pool, the
                \* connection, the DatabaseService methods), in order, with their result
    held,       \* connections taken from the pool and not released
    tx,         \* the open transaction of the connection: the store as it sees it
    committed,  \* the committed store: responses, items, combinations
    nextId,     \* AUTO_INCREMENT counter of responses
    before,     \* the committed store when the invocation started
    proc,       \* concurrent invocations: the locals of each invocation
    pool        \* concurrent invocations: the pool's connections

pureVars == <<op, arg, ret>>

svcVars == <<pc, calls, input, groups, allCombos, responseId, chunkStart, caught,
             outcome, log, held, tx, committed, nextId, before>>

concVars == <<proc, pool>>

vars == <<op, arg, ret, pc, calls, input, groups, allCombos, responseId, chunkStart,
          caught, outcome, log, held, tx, committed, nextId, before, proc, pool>>

(***************************************************************************)
(* Bounds of the model.                                                    *)
(***************************************************************************)
\* largest number of groups / labels / item sequences given to a pure function
PureMaxGroups == 3
\* largest size of one group given to a pure function
PureMaxCount == 2
\* largest number of groups in a request to generateAndStore
MaxGroups == 2
\* largest group size in a request to generateAndStore
MaxCount == 1
\* number of requests served one after the other
MaxCalls == 1
\* largest number of groups / largest group size given to insertItems
DbMaxGroups == 2
DbMaxCount == 2
\* largest number of combinations given to insertCombinations in one of a
\* sequence of calls
DbMaxCombos == 2
\* the short lists given to insertCombinations alone have 1..ChunkMaxShort entries
ChunkMaxShort == 20
\* largest number of distinct keys in a list with repeated keys
ChunkMaxKeys == 2
\* largest group size in a request of a concurrent invocation
ConcMaxCount == 2

(***************************************************************************)
(* Strings.                                                                *)
(***************************************************************************)
\* 'A'.charCodeAt(0)
CharCodeA == 65

\* String.fromCharCode(code): the one-unit string of that code unit
FromCharCode(code) == <<code % 65536>>

\* `${i}` for an integer i >= 0: its decimal digits
RECURSIVE NumberToString(_)
NumberToString(n) ==
    IF n < 10 THEN <<48 + n>>
    ELSE NumberToString(n \div 10) \o <<48 + (n % 10)>>

(***************************************************************************)
(* Map<string, string[]>: an insertion-ordered list of entries.            *)
(***************************************************************************)
MapHas(m, k) == \E j \in 1..Len(m) : m[j].key = k

MapSet(m, k, v) ==
    IF MapHas(m, k)
    THEN [j \in 1..Len(m) |-> IF m[j].key = k THEN [key |-> k, val |-> v] ELSE m[j]]
    ELSE Append(m, [key |-> k, val |-> v])

MapGet(m, k) == m[CHOOSE j \in 1..Len(m) : m[j].key = k].val

MapKeys(m) == [j \in 1..Len(m) |-> m[j].key]

MapSize(m) == Len(m)

\* Array.prototype.flat / flatMap over a sequence of sequences
RECURSIVE Flat(_)
Flat(ss) == IF ss = <<>> THEN <<>> ELSE Head(ss) \o Flat(Tail(ss))

(***************************************************************************)
(* CombinationsService.expandItems                                         *)
(***************************************************************************)
\* the inner loop: for (let i = 1; i <= count; i++) arr.push(`${prefix}${i}`)
ItemCodes(prefix, count) == [i \in 1..count |-> prefix \o NumberToString(i)]

\* the outer loop over items, carrying codePoint and the map built so far
RECURSIVE expandLoop(_, _, _)
expandLoop(items, codePoint, groupMap) ==
    IF items = <<>> THEN groupMap
    ELSE LET prefix == FromCharCode(codePoint)
         IN  expandLoop(Tail(items), codePoint + 1,
                        MapSet(groupMap, prefix, ItemCodes(prefix, Head(items))))

\* mutant of expandItems: the code point is incremented before its first use
expandItemsPreIncrement(items) == expandLoop(items, CharCodeA + 1, <<>>)

expandItems(items) == expandLoop(items, CharCodeA, <<>>)

(***************************************************************************)
(* CombinationsService.choose                                              *)
(***************************************************************************)
\* backtrack(startIndex, currentPath): the subsequences it pushes to result,
\* in the order it pushes them; startIndex is 0-based as in the code
RECURSIVE backtrack(_, _, _, _)
RECURSIVE backtrackLoop(_, _, _, _)
backtrack(items, combinationLength, startIndex, currentPath) ==
    IF Len(currentPath) = combinationLength THEN <<currentPath>>
    ELSE backtrackLoop(items, combinationLength, startIndex, currentPath)

\* for (let i = startIndex; i < items.length; i++) { push; backtrack(i+1); pop }
backtrackLoop(items, combinationLength, i, currentPath) ==
    IF i >= Len(items) THEN <<>>
    ELSE backtrack(items, combinationLength, i + 1, Append(currentPath, items[i + 1]))
         \o backtrackLoop(items, combinationLength, i + 1, currentPath)

\* mutant of choose: the search starts at the second element
chooseFromSecond(items, combinationLength) == backtrack(items, combinationLength, 1, <<>>)

choose(items, combinationLength) == backtrack(items, combinationLength, 0, <<>>)

(***************************************************************************)
(* CombinationsService.cartesian                                           *)
(***************************************************************************)
\* mutant of cartesianStep: the new item is put in front ([item, ...prev])
cartesianStepPrepend(accumulator, currentGroup) ==
    Flat([p \in 1..Len(accumulator) |->
            [q \in 1..Len(currentGroup) |-> <<currentGroup[q]>> \o accumulator[p]]])

\* the reducer: accumulator.flatMap(prev => currentGroup.map(item => [...prev, item]))
cartesianStep(accumulator, currentGroup) ==
    Flat([p \in 1..Len(accumulator) |->
            [q \in 1..Len(currentGroup) |-> Append(accumulator[p], currentGroup[q])]])

RECURSIVE cartesianReduce(_, _)
cartesianReduce(itemGroups, accumulator) ==
    IF itemGroups = <<>> THEN accumulator
    ELSE cartesianReduce(Tail(itemGroups), cartesianStep(accumulator, Head(itemGroups)))

cartesian(itemGroups) == cartesianReduce(itemGroups, << <<>> >>)

(***************************************************************************)
(* CombinationsService.generateValidCombinations                           *)
(***************************************************************************)
\* mutant of generateValidCombinations: only the first chosen prefix set is expanded
generateValidCombinationsFirstOnly(groupMap, length) ==
    LET prefixes == MapKeys(groupMap)
        chosenPrefixCombos == choose(prefixes, length)
        arrays(prefixSet) == [p \in 1..Len(prefixSet) |-> MapGet(groupMap, prefixSet[p])]
    IN  IF chosenPrefixCombos = <<>> THEN <<>> ELSE cartesian(arrays(chosenPrefixCombos[1]))

generateValidCombinations(groupMap, length) ==
    LET prefixes == MapKeys(groupMap)
        chosenPrefixCombos == choose(prefixes, length)
        arrays(prefixSet) == [p \in 1..Len(prefixSet) |-> MapGet(groupMap, prefixSet[p])]
    IN  Flat([j \in 1..Len(chosenPrefixCombos) |-> cartesian(arrays(chosenPrefixCombos[j]))])

\* sequences of at most n elements of S
SeqsUpTo(S, n) == UNION {[1..m -> S] : m \in 0..n}

(***************************************************************************)
(* JavaScript helpers used by DatabaseService.                             *)
(***************************************************************************)
\* a value that may be null: <<>> is null, <<v>> is v
Null == <<>>
Some(v) == <<v>>

\* s < t in the order of Array.prototype.sort without a comparator: by UTF-16
\* code units, a proper prefix first
RECURSIVE StrLess(_, _)
StrLess(s, t) ==
    IF t = <<>> THEN FALSE
    ELSE IF s = <<>> THEN TRUE
    ELSE IF Head(s) # Head(t) THEN Head(s) < Head(t)
    ELSE StrLess(Tail(s), Tail(t))

\* insertion of x into a sorted sequence, after the elements not greater than it
RECURSIVE SortInsert(_, _)
SortInsert(sorted, x) ==
    IF sorted = <<>> THEN <<x>>
    ELSE IF StrLess(x, Head(sorted)) THEN <<x>> \o sorted
    ELSE <<Head(sorted)>> \o SortInsert(Tail(sorted), x)

\* [...c].sort(): a sorted copy (the sort is stable)
RECURSIVE Sort(_)
Sort(c) == IF c = <<>> THEN <<>> ELSE SortInsert(Sort(SubSeq(c, 1, Len(c) - 1)), c[Len(c)])

\* parts.join(sep)
RECURSIVE Join(_, _)
Join(parts, sep) ==
    IF parts = <<>> THEN <<>>
    ELSE IF Len(parts) = 1 THEN parts[1]
    ELSE parts[1] \o sep \o Join(Tail(parts), sep)

\* JSON.stringify of a string: quoted, with '"' and '\' escaped
RECURSIVE JsonEscape(_)
JsonEscape(str) ==
    IF str = <<>> THEN <<>>
    ELSE (IF Head(str) \in {34, 92} THEN <<92, Head(str)>> ELSE <<Head(str)>>)
         \o JsonEscape(Tail(str))

JsonString(str) == <<34>> \o JsonEscape(str) \o <<34>>

\* JSON.stringify(c) for an array of strings
JsonStringifyStrings(c) ==
    <<91>> \o Join([i \in 1..Len(c) |-> JsonString(c[i])], <<44>>) \o <<93>>

\* JSON.stringify(items) for an array of non-negative integers
JsonStringifyNumbers(items) ==
    <<91>> \o Join([i \in 1..Len(items) |-> NumberToString(items[i])], <<44>>) \o <<93>>

\* code.slice(1)
Slice1(code) == SubSeq(code, 2, Len(code))

\* parseInt(str, 10) of a string without sign or leading blanks: the value of
\* its leading decimal digits, NaN (here <<>>) when it has none
RECURSIVE ParseDigits(_, _)
ParseDigits(str, acc) ==
    IF str = <<>> \/ Head(str) < 48 \/ Head(str) > 57 THEN acc
    ELSE ParseDigits(Tail(str), 10 * acc + (Head(str) - 48))

ParseInt(str) ==
    IF str = <<>> \/ Head(str) < 48 \/ Head(str) > 57 THEN Null
    ELSE Some(ParseDigits(str, 0))

(***************************************************************************)
(* The store: the three tables of ensureSchema.  Row ids of items and      *)
(* combinations and the created_at columns are not read by the program and *)
(* are left out.                                                           *)
(***************************************************************************)
EmptyStore == [responses |-> {}, items |-> {}, combinations |-> {}]

NoTx == [open |-> FALSE, store |-> EmptyStore]

\* INSERT INTO responses (request_json, length): one new row under the next id
InsertResponseRow(store, id, payload) ==
    [store EXCEPT !.responses =
        @ \cup {[id |-> id,
                 request_json |-> JsonStringifyNumbers(payload.items),
                 length |-> payload.length]}]

\* insertItems: the values it builds, one [code, prefix, idx] per item
ItemValues(gs) ==
    Flat([g \in 1..Len(gs) |->
            [j \in 1..Len(gs[g].val) |->
                [code |-> gs[g].val[j],
                 prefix |-> gs[g].key,
                 idx |-> ParseInt(Slice1(gs[g].val[j]))]]])

\* mutant of InsertIgnoreItems: the statement replaces the table
InsertReplaceItems(rows, values) == {values[j] : j \in 1..Len(values)}

\* INSERT IGNORE INTO items: a row whose code is already there is skipped
RECURSIVE InsertIgnoreItems(_, _)
InsertIgnoreItems(rows, values) ==
    IF values = <<>> THEN rows
    ELSE InsertIgnoreItems(
            IF \E r \in rows : r.code = Head(values).code THEN rows
            ELSE rows \cup {Head(values)},
            Tail(values))

\* insertCombinations: the values of one chunk, [responseId, key, json] each
CombinationValues(id, slice) ==
    [j \in 1..Len(slice) |->
        [response_id |-> id,
         combination_key |-> Join(Sort(slice[j]), <<124>>),
         combination_json |-> JsonStringifyStrings(slice[j])]]

\* insertItems on a connection: the rows after it and the queries it issued
insertItems(rows, groupMap) ==
    LET values == ItemValues(groupMap)
    IN  IF Len(values) = 0 THEN [rows |-> rows, queries |-> <<>>]
        ELSE [rows |-> InsertIgnoreItems(rows, values), queries |-> <<values>>]

\* mutant of UpsertCombinations: the unique key is response_id alone
UpsertCombinationsKeyedById(rows, values) ==
    LET n == Len(values)
        kept == {r \in rows : \A j \in 1..n : r.response_id # values[j].response_id}
        last == {j \in 1..n : \A l \in (j + 1)..n :
                                  values[j].response_id # values[l].response_id}
    IN  kept \cup {values[j] : j \in last}

\* mutant of UpsertCombinations: a row whose key is already there is skipped
\* (INSERT IGNORE)
UpsertCombinationsIgnore(rows, values) ==
    LET n == Len(values)
        SameKey(a, b) == a.response_id = b.response_id
                         /\ a.combination_key = b.combination_key
        first == {j \in 1..n : /\ \A r \in rows : ~SameKey(r, values[j])
                               /\ \A l \in 1..(j - 1) : ~SameKey(values[l], values[j])}
    IN  rows \cup {values[j] : j \in first}

\* INSERT ... ON DUPLICATE KEY UPDATE combination_json = VALUES(combination_json)
\* under the unique key (response_id, combination_key): the values are applied
\* in order, so of the rows and values with one key the last value stays
UpsertCombinations(rows, values) ==
    LET n == Len(values)
        SameKey(a, b) == a.response_id = b.response_id
                         /\ a.combination_key = b.combination_key
        kept == {r \in rows : \A j \in 1..n : ~SameKey(r, values[j])}
        last == {j \in 1..n : \A l \in (j + 1)..n : ~SameKey(values[j], values[l])}
    IN  kept \cup {values[j] : j \in last}

\* const CHUNK = 1000
CHUNK == 1000

\* mutant of ChunkSlice: combos.slice(i, i + CHUNK + 1)
ChunkSliceOneMore(combos, i, chunk) ==
    SubSeq(combos, i + 1,
           IF i + chunk + 1 < Len(combos) THEN i + chunk + 1 ELSE Len(combos))

\* combos.slice(i, i + CHUNK), i counted from 0
ChunkSlice(combos, i, chunk) ==
    SubSeq(combos, i + 1, IF i + chunk < Len(combos) THEN i + chunk ELSE Len(combos))

\* for (let i = 0; i < combos.length; i += CHUNK): one query per slice
RECURSIVE insertCombinationsLoop(_, _, _, _, _, _)
insertCombinationsLoop(rows, id, combos, i, chunk, queries) ==
    IF ~(i < Len(combos)) THEN [rows |-> rows, queries |-> queries]
    ELSE LET values == CombinationValues(id, ChunkSlice(combos, i, chunk))
         IN  insertCombinationsLoop(UpsertCombinations(rows, values), id,
                                    combos, i + chunk, chunk, Append(queries, values))

\* insertCombinations with its chunk size as a parameter
insertCombinationsChunked(rows, id, combos, chunk) ==
    IF Len(combos) = 0 THEN [rows |-> rows, queries |-> <<>>]
    ELSE insertCombinationsLoop(rows, id, combos, 0, chunk, <<>>)

\* insertCombinations on a connection: the rows after it and the queries it issued
insertCombinations(rows, id, combos) ==
    insertCombinationsChunked(rows, id, combos, CHUNK)

(***************************************************************************)
(* CombinationsService.generateAndStore and DatabaseService.withTransaction*)
(* One action per step between two awaits.  Every call on the pool or the  *)
(* connection that returns a promise may reject; a rejected call has no    *)
(* effect on the store.                                                    *)
(***************************************************************************)
\* the requests: items is an array of integers >= 0 or not an array at all
Inputs ==
    {[isArray |-> TRUE, items |-> its, length |-> len] :
        its \in SeqsUpTo(0..MaxCount, MaxGroups), len \in 0..(MaxGroups + 1)}
    \cup {[isArray |-> FALSE, items |-> <<>>, length |-> len] : len \in 0..(MaxGroups + 1)}

NoOutcome == [kind |-> "none", id |-> Null, combination |-> <<>>, error |-> ""]
Returned(id, combination) ==
    [kind |-> "return", id |-> id, combination |-> combination, error |-> ""]
Thrown(error) == [kind |-> "throw", id |-> Null, combination |-> <<>>, error |-> error]

Done == {"idle", "returned", "rejected", "failed"}

Called(name, ok) == [op |-> name, ok |-> ok]

\* mutant of Validate: the two checks in the other order
ValidateItemsFirst(in) ==
    IF ~in.isArray \/ Len(in.items) = 0 THEN "items must be a non-empty array"
    ELSE IF in.length < 1 THEN "length must be >= 1"
    ELSE "ok"

\* the two checks of generateAndStore: the message of the BadRequestException
\* thrown, "ok" when none is
Validate(in) ==
    IF in.length < 1 THEN "length must be >= 1"
    ELSE IF ~in.isArray \/ Len(in.items) = 0 THEN "items must be a non-empty array"
    ELSE "ok"

\* the two concurrent invocations of the test of parallel transactions
Procs == 1..2

\* no concurrent invocation was started, the pool has created no connection
NoProc ==
    [pc |-> "idle", input |-> [isArray |-> TRUE, items |-> <<>>, length |-> 0],
     groups |-> <<>>, allCombos |-> <<>>, conn |-> 0, responseId |-> Null,
     caught |-> "", outcome |-> NoOutcome]

ConcIdle ==
    /\ proc = [p \in Procs |-> NoProc]
    /\ pool = [conns |-> <<>>, last |-> 0]

Init ==
    /\ op = "none" /\ arg = <<>> /\ ret = <<>>
    /\ ConcIdle
    /\ pc = "idle"
    /\ calls = 0
    /\ input = [isArray |-> TRUE, items |-> <<>>, length |-> 0]
    /\ groups = <<>>
    /\ allCombos = <<>>
    /\ responseId = Null
    /\ chunkStart = 0
    /\ caught = ""
    /\ outcome = NoOutcome
    /\ log = <<>>
    /\ held = 0
    /\ tx = NoTx
    /\ committed = EmptyStore
    /\ nextId = 1
    /\ before = EmptyStore

\* generateAndStore up to its first await: the checks, expandItems, the
\* short-circuit, generateValidCombinations and the call of withTransaction
GenerateAndStore ==
    \E in \in Inputs :
        /\ pc \in Done
        /\ calls < MaxCalls
        /\ calls' = calls + 1
        /\ input' = in
        /\ before' = committed
        /\ responseId' = Null
        /\ chunkStart' = 0
        /\ caught' = ""
        /\ IF Validate(in) # "ok"
           THEN /\ pc' = "rejected"
                /\ outcome' = Thrown(Validate(in))
                /\ groups' = <<>>
                /\ allCombos' = <<>>
                /\ log' = <<>>
           ELSE IF in.length > MapSize(expandItems(in.items))
           THEN /\ pc' = "returned"
                /\ outcome' = Returned(Null, <<>>)
                /\ groups' = expandItems(in.items)
                /\ allCombos' = <<>>
                /\ log' = <<Called("expandItems", TRUE)>>
           ELSE /\ pc' = "getConnection"
                /\ outcome' = NoOutcome
                /\ groups' = expandItems(in.items)
                /\ allCombos' = generateValidCombinations(expandItems(in.items), in.length)
                /\ log' = <<Called("expandItems", TRUE),
                            Called("generateValidCombinations", TRUE)>>
        /\ UNCHANGED <<held, tx, committed, nextId>>
        /\ UNCHANGED <<pureVars, concVars>>

\* const conn = await this.pool.getConnection(): resolved
GetConnectionOk ==
    /\ pc = "getConnection"
    /\ held' = held + 1
    /\ log' = Append(log, Called("getConnection", TRUE))
    /\ pc' = "beginTransaction"
    /\ UNCHANGED <<calls, input, groups, allCombos, responseId, chunkStart, caught,
                   outcome, tx, committed, nextId, before>>
    /\ UNCHANGED <<pureVars, concVars>>

\* getConnection rejected: outside the try, the error leaves withTransaction
\* and generateAndStore as it is
GetConnectionFail ==
    /\ pc = "getConnection"
    /\ log' = Append(log, Called("getConnection", FALSE))
    /\ pc' = "failed"
    /\ outcome' = Thrown("getConnection")
    /\ UNCHANGED <<calls, input, groups, allCombos, responseId, chunkStart, caught,
                   held, tx, committed, nextId, before>>
    /\ UNCHANGED <<pureVars, concVars>>

\* a step inside the try rejected: control goes to the catch block
ToCatch(step) ==
    /\ log' = Append(log, Called(step, FALSE))
    /\ caught' = step
    /\ pc' = "rollback"
    /\ UNCHANGED <<calls, input, groups, allCombos, responseId, chunkStart,
                   outcome, held, tx, committed, nextId, before>>
    /\ UNCHANGED <<pureVars, concVars>>

\* await conn.beginTransaction(): resolved
BeginTransactionOk ==
    /\ pc = "beginTransaction"
    /\ tx' = [open |-> TRUE, store |-> committed]
    /\ log' = Append(log, Called("beginTransaction", TRUE))
    /\ pc' = "insertResponse"
    /\ UNCHANGED <<calls, input, groups, allCombos, responseId, chunkStart, caught,
                   outcome, held, committed, nextId, before>>
    /\ UNCHANGED <<pureVars, concVars>>

BeginTransactionFail ==
    /\ pc = "beginTransaction"
    /\ ToCatch("beginTransaction")

\* mutant of InsertResponseOk: the id returned is not the id of the row inserted
InsertResponseOkWrongId ==
    /\ pc = "insertResponse"
    /\ tx' = [tx EXCEPT !.store = InsertResponseRow(@, nextId, input)]
    /\ responseId' = Some(nextId + 1)
    /\ nextId' = nextId + 1
    /\ log' = Append(log, Called("insertResponse", TRUE))
    /\ pc' = "insertItems"
    /\ UNCHANGED <<calls, input, groups, allCombos, chunkStart, caught,
                   outcome, held, committed, before>>
    /\ UNCHANGED <<pureVars, concVars>>

\* insertResponse: the INSERT resolved, insertId is returned
InsertResponseOk ==
    /\ pc = "insertResponse"
    /\ tx' = [tx EXCEPT !.store = InsertResponseRow(@, nextId, input)]
    /\ responseId' = Some(nextId)
    /\ nextId' = nextId + 1
    /\ log' = Append(log, Called("insertResponse", TRUE))
    /\ pc' = "insertItems"
    /\ UNCHANGED <<calls, input, groups, allCombos, chunkStart, caught,
                   outcome, held, committed, before>>
    /\ UNCHANGED <<pureVars, concVars>>

InsertResponseFail ==
    /\ pc = "insertResponse"
    /\ ToCatch("insertResponse")

\* insertItems with no value to insert: if (values.length === 0) return
InsertItemsNothing ==
    /\ pc = "insertItems"
    /\ ItemValues(groups) = <<>>
    /\ log' = Append(log, Called("insertItems", TRUE))
    /\ pc' = "insertCombinations"
    /\ UNCHANGED <<calls, input, groups, allCombos, responseId, chunkStart, caught,
                   outcome, held, tx, committed, nextId, before>>
    /\ UNCHANGED <<pureVars, concVars>>

\* insertItems: the INSERT IGNORE resolved
InsertItemsOk ==
    /\ pc = "insertItems"
    /\ ItemValues(groups) # <<>>
    /\ tx' = [tx EXCEPT !.store.items = InsertIgnoreItems(@, ItemValues(groups))]
    /\ log' = Append(log, Called("insertItems", TRUE))
    /\ pc' = "insertCombinations"
    /\ UNCHANGED <<calls, input, groups, allCombos, responseId, chunkStart, caught,
                   outcome, held, committed, nextId, before>>
    /\ UNCHANGED <<pureVars, concVars>>

InsertItemsFail ==
    /\ pc = "insertItems"
    /\ ItemValues(groups) # <<>>
    /\ ToCatch("insertItems")

\* insertCombinations with no combination: if (combos.length === 0) return
InsertCombinationsNothing ==
    /\ pc = "insertCombinations"
    /\ Len(allCombos) = 0
    /\ log' = Append(log, Called("insertCombinations", TRUE))
    /\ pc' = "commit"
    /\ UNCHANGED <<calls, input, groups, allCombos, responseId, chunkStart, caught,
                   outcome, held, tx, committed, nextId, before>>
    /\ UNCHANGED <<pureVars, concVars>>

\* insertCombinations: the INSERT of the chunk at i resolved; i += CHUNK; the
\* call of insertCombinations resolves after the last chunk
InsertCombinationsChunkOk ==
    /\ pc = "insertCombinations"
    /\ chunkStart < Len(allCombos)
    /\ tx' = [tx EXCEPT !.store.combinations =
                UpsertCombinations(@, CombinationValues(responseId[1],
                                          ChunkSlice(allCombos, chunkStart, CHUNK)))]
    /\ log' = IF chunkStart + CHUNK < Len(allCombos) THEN log
               ELSE Append(log, Called("insertCombinations", TRUE))
    /\ chunkStart' = chunkStart + CHUNK
    /\ pc' = IF chunkStart + CHUNK < Len(allCombos) THEN "insertCombinations" ELSE "commit"
    /\ UNCHANGED <<calls, input, groups, allCombos, responseId, caught,
                   outcome, held, committed, nextId, before>>
    /\ UNCHANGED <<pureVars, concVars>>

\* mutant of InsertCombinationsChunkFail: the rejected chunk is skipped and the
\* unit of work goes on to commit
InsertCombinationsChunkSkipped ==
    /\ pc = "insertCombinations"
    /\ chunkStart < Len(allCombos)
    /\ log' = Append(log, Called("insertCombinations", FALSE))
    /\ pc' = "commit"
    /\ UNCHANGED <<calls, input, groups, allCombos, responseId, chunkStart, caught,
                   outcome, held, tx, committed, nextId, before>>
    /\ UNCHANGED <<pureVars, concVars>>

InsertCombinationsChunkFail ==
    /\ pc = "insertCombinations"
    /\ chunkStart < Len(allCombos)
    /\ ToCatch("insertCombinations")

\* finally { conn.release() }, then the result goes to the caller
Finally(result) ==
    /\ log' = log \o <<Called(result.op, result.ok), Called("release", TRUE)>>
    /\ held' = held - 1
    /\ outcome' = result.outcome
    /\ pc' = IF result.outcome.kind = "return" THEN "returned" ELSE "failed"

\* mutant of CommitOk: withTransaction does not return the result of the
\* transaction function, so the id is absent
CommitOkNoResult ==
    /\ pc = "commit"
    /\ committed' = tx.store
    /\ tx' = NoTx
    /\ Finally([op |-> "commit", ok |-> TRUE, outcome |-> Returned(Null, allCombos)])
    /\ UNCHANGED <<calls, input, groups, allCombos, responseId, chunkStart, caught,
                   nextId, before>>
    /\ UNCHANGED <<pureVars, concVars>>

\* await conn.commit() resolved; return result; finally; generateAndStore
\* returns { id: result, combination: allCombos }
CommitOk ==
    /\ pc = "commit"
    /\ committed' = tx.store
    /\ tx' = NoTx
    /\ Finally([op |-> "commit", ok |-> TRUE, outcome |-> Returned(responseId, allCombos)])
    /\ UNCHANGED <<calls, input, groups, allCombos, responseId, chunkStart, caught,
                   nextId, before>>
    /\ UNCHANGED <<pureVars, concVars>>

\* mutant of CommitFail: commit is outside the try, its error leaves without
\* a rollback
CommitFailNoRollback ==
    /\ pc = "commit"
    /\ Finally([op |-> "commit", ok |-> FALSE, outcome |-> Thrown("commit")])
    /\ UNCHANGED <<calls, input, groups, allCombos, responseId, chunkStart, caught,
                   tx, committed, nextId, before>>
    /\ UNCHANGED <<pureVars, concVars>>

CommitFail ==
    /\ pc = "commit"
    /\ ToCatch("commit")

\* mutant of RollbackOk: the catch block throws an error of its own
RollbackOkOtherError ==
    /\ pc = "rollback"
    /\ tx' = NoTx
    /\ Finally([op |-> "rollback", ok |-> TRUE, outcome |-> Thrown("transaction failed")])
    /\ UNCHANGED <<calls, input, groups, allCombos, responseId, chunkStart, caught,
                   committed, nextId, before>>
    /\ UNCHANGED <<pureVars, concVars>>

\* catch (err) { await conn.rollback(); throw err; } with rollback resolved
RollbackOk ==
    /\ pc = "rollback"
    /\ tx' = NoTx
    /\ Finally([op |-> "rollback", ok |-> TRUE, outcome |-> Thrown(caught)])
    /\ UNCHANGED <<calls, input, groups, allCombos, responseId, chunkStart, caught,
                   committed, nextId, before>>
    /\ UNCHANGED <<pureVars, concVars>>

\* mutant of RollbackFail: the connection is not released when rollback rejects
RollbackFailNoRelease ==
    /\ pc = "rollback"
    /\ log' = Append(log, Called("rollback", FALSE))
    /\ outcome' = Thrown("rollback")
    /\ pc' = "failed"
    /\ UNCHANGED <<calls, input, groups, allCombos, responseId, chunkStart, caught,
                   held, tx, committed, nextId, before>>
    /\ UNCHANGED <<pureVars, concVars>>

\* rollback rejected: its error replaces err; finally still runs
RollbackFail ==
    /\ pc = "rollback"
    /\ Finally([op |-> "rollback", ok |-> FALSE, outcome |-> Thrown("rollback")])
    /\ UNCHANGED <<calls, input, groups, allCombos, responseId, chunkStart, caught,
                   tx, committed, nextId, before>>
    /\ UNCHANGED <<pureVars, concVars>>

Next ==
    \/ GenerateAndStore
    \/ GetConnectionOk
    \/ GetConnectionFail
    \/ BeginTransactionOk
    \/ BeginTransactionFail
    \/ InsertResponseOk
    \/ InsertResponseFail
    \/ InsertItemsNothing
    \/ InsertItemsOk
    \/ InsertItemsFail
    \/ InsertCombinationsNothing
    \/ InsertCombinationsChunkOk
    \/ InsertCombinationsChunkFail
    \/ CommitOk
    \/ CommitFail
    \/ RollbackOk
    \/ RollbackFail

Spec == Init /\ [][Next]_vars

(***************************************************************************)
(* Specification of the pure functions: Init draws one input, one action   *)
(* per function applies it.                                                *)
(***************************************************************************)
\* the group labels available to a drawn input
PureLabels == {FromCharCode(CharCodeA + i) : i \in 0..(PureMaxGroups - 1)}

\* sequences of pairwise distinct elements of S
DistinctSeqs(S) ==
    {s \in SeqsUpTo(S, Cardinality(S)) : \A i, j \in 1..Len(s) : i # j => s[i] # s[j]}

\* a groups mapping: distinct keys in any order, each with its own items
GroupsOf(keys, counts) ==
    [j \in 1..Len(keys) |-> [key |-> keys[j], val |-> ItemCodes(keys[j], counts[j])]]

\* the service is idle throughout
SvcIdle ==
    /\ pc = "idle" /\ calls = 0
    /\ input = [isArray |-> TRUE, items |-> <<>>, length |-> 0]
    /\ groups = <<>> /\ allCombos = <<>> /\ responseId = Null /\ chunkStart = 0
    /\ caught = "" /\ outcome = NoOutcome /\ log = <<>> /\ held = 0
    /\ tx = NoTx /\ committed = EmptyStore /\ nextId = 1 /\ before = EmptyStore
    /\ ConcIdle

InitPure ==
    /\ SvcIdle
    /\ op = "none"
    /\ ret = <<>>
    /\ \/ \E items \in SeqsUpTo(0..PureMaxCount, PureMaxGroups) :
            arg = [kind |-> "expandItems", a |-> items, k |-> 0]
       \/ \E labels \in DistinctSeqs(PureLabels), k \in 0..(PureMaxGroups + 1) :
            arg = [kind |-> "choose", a |-> labels, k |-> k]
       \/ \E gs \in SeqsUpTo(PureLabels \X (0..PureMaxCount), PureMaxGroups) :
            arg = [kind |-> "cartesian",
                   a |-> [j \in 1..Len(gs) |-> ItemCodes(gs[j][1], gs[j][2])],
                   k |-> 0]
       \/ \E keys \in DistinctSeqs(PureLabels), k \in 0..(PureMaxGroups + 1) :
            \E counts \in [1..Len(keys) -> 0..PureMaxCount] :
               arg = [kind |-> "generateValidCombinations",
                      a |-> GroupsOf(keys, counts), k |-> k]

ApplyExpandItems ==
    /\ op = "none" /\ arg.kind = "expandItems"
    /\ op' = "expandItems"
    /\ ret' = expandItems(arg.a)
    /\ UNCHANGED <<arg, svcVars, concVars>>

ApplyChoose ==
    /\ op = "none" /\ arg.kind = "choose"
    /\ op' = "choose"
    /\ ret' = choose(arg.a, arg.k)
    /\ UNCHANGED <<arg, svcVars, concVars>>

ApplyCartesian ==
    /\ op = "none" /\ arg.kind = "cartesian"
    /\ op' = "cartesian"
    /\ ret' = cartesian(arg.a)
    /\ UNCHANGED <<arg, svcVars, concVars>>

ApplyGenerateValidCombinations ==
    /\ op = "none" /\ arg.kind = "generateValidCombinations"
    /\ op' = "generateValidCombinations"
    /\ ret' = generateValidCombinations(arg.a, arg.k)
    /\ UNCHANGED <<arg, svcVars, concVars>>

NextPure ==
    \/ ApplyExpandItems
    \/ ApplyChoose
    \/ ApplyCartesian
    \/ ApplyGenerateValidCombinations

SpecPure == InitPure /\ [][NextPure]_vars

(***************************************************************************)
(* Specifications of DatabaseService.insertItems and insertCombinations:   *)
(* any number of calls one after the other on a connection without a       *)
(* transaction, so every call works on the committed store the calls       *)
(* before it left.                                                         *)
(***************************************************************************)
\* what a call of a DatabaseService method leaves alone
callVars == <<pc, calls, input, groups, allCombos, responseId, chunkStart, caught,
              outcome, log, held, tx, nextId, proc, pool>>

NoCall == [kind |-> "none", a |-> <<>>, k |-> 0]

InitDb ==
    /\ SvcIdle
    /\ op = "none"
    /\ arg = NoCall
    /\ ret = <<>>

\* await db.insertItems(conn, groups), groups as expandItems builds them
\* the items of the requests whose groups are given to insertItems
DbItemLists == SeqsUpTo(0..DbMaxCount, DbMaxGroups)

InsertItemsCall ==
    /\ \E items \in DbItemLists :
          LET groupMap == expandItems(items)
              r == insertItems(committed.items, groupMap)
          IN  /\ op' = "insertItems"
              /\ arg' = [kind |-> "insertItems", a |-> groupMap, k |-> 0]
              /\ ret' = r.queries
              /\ before' = committed
              /\ committed' = [committed EXCEPT !.items = r.rows]
    /\ UNCHANGED callVars

NextItems == InsertItemsCall

SpecItems == InitDb /\ [][NextItems]_vars

\* the orderings of the elements of a sequence
Orderings(c) ==
    {[i \in 1..Len(c) |-> c[f[i]]] :
        f \in {g \in [1..Len(c) -> 1..Len(c)] : \A i, j \in 1..Len(c) : i # j => g[i] # g[j]}}

\* the combinations a caller passes: those of items=[2,1], length=2, the first
\* of them in either order (one key, two payloads)
ComboPool ==
    LET generated == generateValidCombinations(expandItems(<<2, 1>>), 2)
    IN  Orderings(generated[1]) \cup {generated[2]}

\* await db.insertCombinations(conn, responseId, combos)
\* the lists a caller passes
ComboLists == SeqsUpTo(ComboPool, DbMaxCombos)

InsertCombinationsCall ==
    /\ \E id \in 1..2, combos \in ComboLists :
          LET r == insertCombinations(committed.combinations, id, combos)
          IN  /\ op' = "insertCombinations"
              /\ arg' = [kind |-> "insertCombinations", a |-> combos, k |-> id]
              /\ ret' = r.queries
              /\ before' = committed
              /\ committed' = [committed EXCEPT !.combinations = r.rows]
    /\ UNCHANGED callVars

NextCombinations == InsertCombinationsCall

SpecCombinations == InitDb /\ [][NextCombinations]_vars

(***************************************************************************)
(* Specification of insertCombinations on lists around the chunk size:     *)
(* Init draws the list, the action applies the function.                   *)
(***************************************************************************)
\* the lengths of the lists: short ones, and those around CHUNK and 2 * CHUNK
ChunkLengths ==
    (1..ChunkMaxShort) \cup {CHUNK - 1, CHUNK, CHUNK + 1, 2 * CHUNK, 2 * CHUNK + 1}

\* a list of n combinations over `keys` distinct keys: the i-th is [A<j>, B1],
\* turned round on every other pass through the keys
ComboList(n, keys) ==
    [i \in 1..n |->
        LET a == FromCharCode(CharCodeA) \o NumberToString(((i - 1) % keys) + 1)
            b == FromCharCode(CharCodeA + 1) \o NumberToString(1)
        IN  IF ((i - 1) \div keys) % 2 = 0 THEN <<a, b>> ELSE <<b, a>>]

InitChunks ==
    /\ SvcIdle
    /\ op = "none"
    /\ ret = <<>>
    /\ \E n \in ChunkLengths, keys \in 1..(ChunkMaxKeys + 1), id \in 1..2 :
          arg = [kind |-> "insertCombinations",
                 a |-> ComboList(n, IF keys > ChunkMaxKeys THEN n ELSE keys),
                 k |-> id,
                 rows |-> insertCombinations({}, 1, ComboList(2, 2)).rows]

ApplyInsertCombinations ==
    /\ op = "none" /\ arg.kind = "insertCombinations"
    /\ op' = "insertCombinations"
    /\ ret' = insertCombinations(arg.rows, arg.k, arg.a)
    /\ UNCHANGED <<arg, svcVars, concVars>>

NextChunks == ApplyInsertCombinations

SpecChunks == InitChunks /\ [][NextChunks]_vars

(***************************************************************************)
(* Two concurrent invocations of generateAndStore.  Each has its own       *)
(* locals (proc[p]); the pool, its connections and the committed store are *)
(* shared.  A step is the code between two awaits of one invocation; the   *)
(* steps of the two invocations interleave in any order.  A transaction    *)
(* keeps the rows it wrote as pending until commit.  The lists are shorter *)
(* than CHUNK, so insertCombinations is one query.                         *)
(***************************************************************************)
\* connectionLimit: 10
ConnectionLimit == 10

\* the requests of the concurrent invocations: one group; length 0 is
\* rejected, length 2 exceeds the number of groups
ConcInputs ==
    {[isArray |-> TRUE, items |-> <<c>>, length |-> len] :
        c \in 1..ConcMaxCount, len \in 0..2}

NoPending == [responses |-> <<>>, items |-> <<>>, combinations |-> <<>>]

\* a connection the pool created: who holds it, its transaction, and the calls
\* made on it, each with its caller and the holder at that time
NewConnection == [holder |-> 0, open |-> FALSE, pending |-> NoPending, ops |-> <<>>]

\* mutant of ConnOf: the connection is kept in a field of the service, which
\* the latest getConnection overwrites
ConnOfShared(p) == pool.last

\* const conn: the connection of the invocation's withTransaction
ConnOf(p) == proc[p].conn

\* a call made on a connection
OnConn(conn, name, p, ok) ==
    [conn EXCEPT !.ops = Append(@, [op |-> name, by |-> p, holder |-> conn.holder,
                                    ok |-> ok])]

\* the connections no invocation holds
FreeConnections == {c \in 1..Len(pool.conns) : pool.conns[c].holder = 0}

\* generateAndStore up to its first await
ConcGenerateAndStore(p) ==
    /\ proc[p].pc = "idle"
    /\ \E in \in ConcInputs :
          LET v == Validate(in)
              gs == expandItems(in.items)
              combos == generateValidCombinations(gs, in.length)
          IN  proc' = [proc EXCEPT ![p] =
                 IF v # "ok"
                 THEN [@ EXCEPT !.input = in, !.pc = "rejected", !.outcome = Thrown(v)]
                 ELSE IF in.length > MapSize(gs)
                 THEN [@ EXCEPT !.input = in, !.groups = gs, !.pc = "returned",
                                !.outcome = Returned(Null, <<>>)]
                 ELSE [@ EXCEPT !.input = in, !.groups = gs, !.allCombos = combos,
                                !.pc = "getConnection"]]
    /\ UNCHANGED <<pool, pureVars, svcVars>>

\* await this.pool.getConnection() resolved: a free connection, or a new one
\* while the pool has fewer than connectionLimit
ConcGetConnectionOk(p) ==
    /\ proc[p].pc = "getConnection"
    /\ \E c \in 1..(Len(pool.conns) + 1) :
          /\ IF FreeConnections # {} THEN c \in FreeConnections
             ELSE c = Len(pool.conns) + 1 /\ c <= ConnectionLimit
          /\ LET conns == IF c > Len(pool.conns) THEN Append(pool.conns, NewConnection)
                          ELSE pool.conns
             IN  pool' = [conns |-> [conns EXCEPT ![c].holder = p], last |-> c]
          /\ proc' = [proc EXCEPT ![p].conn = c, ![p].pc = "beginTransaction"]
    /\ UNCHANGED <<pureVars, svcVars>>

\* await this.pool.getConnection() rejected: withTransaction throws
ConcGetConnectionFail(p) ==
    /\ proc[p].pc = "getConnection"
    /\ proc' = [proc EXCEPT ![p].pc = "failed", ![p].outcome = Thrown("getConnection")]
    /\ UNCHANGED <<pool, pureVars, svcVars>>

ConcBeginTransactionOk(p) ==
    /\ proc[p].pc = "beginTransaction"
    /\ pool' = [pool EXCEPT !.conns[ConnOf(p)] =
                  [OnConn(@, "beginTransaction", p, TRUE) EXCEPT
                      !.open = TRUE, !.pending = NoPending]]
    /\ proc' = [proc EXCEPT ![p].pc = "insertResponse"]
    /\ UNCHANGED <<pureVars, svcVars>>

\* insertResponse resolved: the row is pending, the AUTO_INCREMENT id is taken
ConcInsertResponseOk(p) ==
    /\ proc[p].pc = "insertResponse"
    /\ pool' = [pool EXCEPT !.conns[ConnOf(p)] =
                  [OnConn(@, "query", p, TRUE) EXCEPT
                      !.pending.responses =
                          Append(@, [id |-> nextId,
                                     request_json |-> JsonStringifyNumbers(proc[p].input.items),
                                     length |-> proc[p].input.length])]]
    /\ nextId' = nextId + 1
    /\ proc' = [proc EXCEPT ![p].responseId = Some(nextId), ![p].pc = "insertItems"]
    /\ UNCHANGED <<pureVars, pc, calls, input, groups, allCombos, responseId,
                   chunkStart, caught, outcome, log, held, tx, committed, before>>

\* insertItems resolved (no query when there is no item)
ConcInsertItemsOk(p) ==
    /\ proc[p].pc = "insertItems"
    /\ LET values == ItemValues(proc[p].groups)
       IN  pool' = IF Len(values) = 0 THEN pool
                   ELSE [pool EXCEPT !.conns[ConnOf(p)] =
                           [OnConn(@, "query", p, TRUE) EXCEPT
                               !.pending.items = @ \o values]]
    /\ proc' = [proc EXCEPT ![p].pc = "insertCombinations"]
    /\ UNCHANGED <<pureVars, svcVars>>

\* insertCombinations resolved (no query when there is no combination)
ConcInsertCombinationsOk(p) ==
    /\ proc[p].pc = "insertCombinations"
    /\ LET values == CombinationValues(proc[p].responseId[1],
                                       ChunkSlice(proc[p].allCombos, 0, CHUNK))
       IN  pool' = IF Len(values) = 0 THEN pool
                   ELSE [pool EXCEPT !.conns[ConnOf(p)] =
                           [OnConn(@, "query", p, TRUE) EXCEPT
                               !.pending.combinations = @ \o values]]
    /\ proc' = [proc EXCEPT ![p].pc = "commit"]
    /\ UNCHANGED <<pureVars, svcVars>>

\* beginTransaction, a query of the transaction function or commit rejected:
\* catch (err)
ConcReject(p) ==
    /\ proc[p].pc \in {"beginTransaction", "insertResponse", "insertItems",
                       "insertCombinations", "commit"}
    /\ pool' = [pool EXCEPT !.conns[ConnOf(p)] =
                  OnConn(@, IF proc[p].pc \in {"beginTransaction", "commit"}
                            THEN proc[p].pc ELSE "query", p, FALSE)]
    /\ proc' = [proc EXCEPT ![p].caught = proc[p].pc, ![p].pc = "rollback"]
    /\ UNCHANGED <<pureVars, svcVars>>

\* the store after the pending rows of a transaction are committed
CommitPending(store, pending) ==
    [responses |-> store.responses
                      \cup {pending.responses[i] : i \in 1..Len(pending.responses)},
     items |-> InsertIgnoreItems(store.items, pending.items),
     combinations |-> UpsertCombinations(store.combinations, pending.combinations)]

\* await conn.commit() resolved; return result; finally conn.release();
\* generateAndStore returns
ConcCommitOk(p) ==
    /\ proc[p].pc = "commit"
    /\ committed' = CommitPending(committed, pool.conns[ConnOf(p)].pending)
    /\ pool' = [pool EXCEPT !.conns[ConnOf(p)] =
                  [OnConn(OnConn(@, "commit", p, TRUE), "release", p, TRUE) EXCEPT
                      !.open = FALSE, !.pending = NoPending, !.holder = 0]]
    /\ proc' = [proc EXCEPT ![p].pc = "returned",
                            ![p].outcome = Returned(proc[p].responseId, proc[p].allCombos)]
    /\ UNCHANGED <<pureVars, pc, calls, input, groups, allCombos, responseId,
                   chunkStart, caught, outcome, log, held, tx, nextId, before>>

\* await conn.rollback() resolved; throw err; finally conn.release()
ConcRollbackOk(p) ==
    /\ proc[p].pc = "rollback"
    /\ pool' = [pool EXCEPT !.conns[ConnOf(p)] =
                  [OnConn(OnConn(@, "rollback", p, TRUE), "release", p, TRUE) EXCEPT
                      !.open = FALSE, !.pending = NoPending, !.holder = 0]]
    /\ proc' = [proc EXCEPT ![p].pc = "failed", ![p].outcome = Thrown(proc[p].caught)]
    /\ UNCHANGED <<pureVars, svcVars>>

\* await conn.rollback() rejected; finally conn.release(); the rollback's
\* error is thrown; the pool drops what the released connection had pending
ConcRollbackFail(p) ==
    /\ proc[p].pc = "rollback"
    /\ pool' = [pool EXCEPT !.conns[ConnOf(p)] =
                  [OnConn(OnConn(@, "rollback", p, FALSE), "release", p, TRUE) EXCEPT
                      !.open = FALSE, !.pending = NoPending, !.holder = 0]]
    /\ proc' = [proc EXCEPT ![p].pc = "failed", ![p].outcome = Thrown("rollback")]
    /\ UNCHANGED <<pureVars, svcVars>>

NextConc ==
    \E p \in Procs :
        \/ ConcGenerateAndStore(p)
        \/ ConcGetConnectionOk(p)
        \/ ConcGetConnectionFail(p)
        \/ ConcBeginTransactionOk(p)
        \/ ConcInsertResponseOk(p)
        \/ ConcInsertItemsOk(p)
        \/ ConcInsertCombinationsOk(p)
        \/ ConcReject(p)
        \/ ConcCommitOk(p)
        \/ ConcRollbackOk(p)
        \/ ConcRollbackFail(p)

InitConc == InitDb

SpecConc == InitConc /\ [][NextConc]_vars

(***************************************************************************)
(* Notions the claims are stated with (none of them is program code).      *)
(***************************************************************************)
Range(s) == {s[i] : i \in 1..Len(s)}

RECURSIVE SumSeq(_)
SumSeq(s) == IF s = <<>> THEN 0 ELSE Head(s) + SumSeq(Tail(s))

RECURSIVE ProductSeq(_)
ProductSeq(s) == IF s = <<>> THEN 1 ELSE Head(s) * ProductSeq(Tail(s))

RECURSIVE Binomial(_, _)
Binomial(n, k) ==
    IF k = 0 THEN 1
    ELSE IF k > n THEN 0
    ELSE Binomial(n - 1, k - 1) + Binomial(n - 1, k)

\* the strictly increasing position sequences of length k into 1..n
IncreasingPositions(n, k) ==
    {s \in [1..k -> 1..n] : \A i \in 1..(k - 1) : s[i] < s[i + 1]}

\* one index into each of the given sequences
Picks(seqs) ==
    LET longest == IF seqs = <<>> THEN 0
                   ELSE CHOOSE n \in {Len(seqs[i]) : i \in 1..Len(seqs)} :
                           \A i \in 1..Len(seqs) : Len(seqs[i]) <= n
    IN  {t \in [1..Len(seqs) -> 1..longest] : \A i \in 1..Len(seqs) : t[i] <= Len(seqs[i])}

\* the letters A..Z as one-unit strings
LatinAlphabet ==
    << <<65>>, <<66>>, <<67>>, <<68>>, <<69>>, <<70>>, <<71>>, <<72>>, <<73>>,
       <<74>>, <<75>>, <<76>>, <<77>>, <<78>>, <<79>>, <<80>>, <<81>>, <<82>>,
       <<83>>, <<84>>, <<85>>, <<86>>, <<87>>, <<88>>, <<89>>, <<90>> >>

(***************************************************************************)
(* Claims about the pure functions (checked under SpecPure).               *)
(***************************************************************************)
\* the subsequence of labels at the positions s
SubsequenceAt(labels, s) == [i \in 1..Len(s) |-> labels[s[i]]]

\* C8: for pairwise distinct labels (n of them) and 0 <= k <= n, choose(labels, k)
\* returns every size-k subsequence of labels (relative order kept) exactly once,
\* C(n,k) of them; for k = n exactly labels itself; for k > n nothing.
C8_ChooseAllSubsequencesOnce ==
    op = "choose" =>
        LET labels == arg.a
            n == Len(labels)
            k == arg.k
            wanted == {SubsequenceAt(labels, s) : s \in IncreasingPositions(n, k)}
        IN  /\ k <= n => /\ Range(ret) = wanted
                         /\ Len(ret) = Cardinality(wanted)
                         /\ Len(ret) = Binomial(n, k)
            /\ k = n => ret = <<labels>>
            /\ k > n => ret = <<>>

\* C8 witness: choose has returned the three pairs of three labels
C8_Witness ==
    /\ op = "choose" /\ Len(arg.a) = 3 /\ arg.k = 2
    /\ Len(ret) = 3

\* the tuple picking item t[i] of the i-th sequence
TupleAt(seqs, t) == [i \in 1..Len(seqs) |-> seqs[i][t[i]]]

\* C9: for m item sequences of sizes s_1..s_m, cartesian returns exactly
\* s_1*...*s_m tuples of length m, tuple[i] drawn from the i-th sequence, every
\* choice of one item per sequence exactly once; [[]] for m = 0 and no tuple when
\* some sequence is empty.
C9_CartesianAllChoicesOnce ==
    op = "cartesian" =>
        LET seqs == arg.a
            m == Len(seqs)
            wanted == {TupleAt(seqs, t) : t \in Picks(seqs)}
        IN  /\ Len(ret) = ProductSeq([i \in 1..m |-> Len(seqs[i])])
            /\ Range(ret) = wanted
            /\ Cardinality(Range(ret)) = Len(ret)
            /\ \A j \in 1..Len(ret) :
                  /\ Len(ret[j]) = m
                  /\ \A i \in 1..m : ret[j][i] \in Range(seqs[i])
            /\ m = 0 => ret = << <<>> >>
            /\ (\E i \in 1..m : seqs[i] = <<>>) => ret = <<>>

\* C9 witness: cartesian has returned the four tuples of two sequences of two
\* different items each
C9_Witness ==
    /\ op = "cartesian" /\ Len(arg.a) = 2
    /\ Len(arg.a[1]) = 2 /\ Len(arg.a[2]) = 2 /\ arg.a[1] # arg.a[2]
    /\ Len(ret) = 4

\* C10: for at most 26 non-negative integers, expandItems labels the i-th
\* element with the i-th letter of A, B, C, ... in input order and gives a group
\* of size count exactly the items {label}1 .. {label}count in order; the number
\* of items over all groups is sum(items); an empty input gives an empty mapping.
C10_ExpandItemsLabels ==
    (op = "expandItems" /\ Len(arg.a) <= 26) =>
        LET items == arg.a
        IN  /\ MapSize(ret) = Len(items)
            /\ \A i \in 1..Len(items) :
                  /\ ret[i].key = LatinAlphabet[i]
                  /\ Len(ret[i].val) = items[i]
                  /\ \A j \in 1..items[i] :
                        ret[i].val[j] = LatinAlphabet[i] \o NumberToString(j)
            /\ SumSeq([i \in 1..Len(ret) |-> Len(ret[i].val)]) = SumSeq(items)
            /\ items = <<>> => ret = <<>>

\* C10 witness: expandItems has labelled [1,2,1] as A=[A1], B=[B1,B2], C=[C1]
C10_Witness ==
    /\ op = "expandItems" /\ arg.a = <<1, 2, 1>>
    /\ ret = << [key |-> <<65>>, val |-> << <<65, 49>> >>],
                [key |-> <<66>>, val |-> << <<66, 49>>, <<66, 50>> >>],
                [key |-> <<67>>, val |-> << <<67, 49>> >>] >>

\* the tuples with one item from each of the groups at the positions s
TuplesOfGroups(groupMap, s) ==
    LET seqs == [j \in 1..Len(s) |-> groupMap[s[j]].val]
    IN  {TupleAt(seqs, t) : t \in Picks(seqs)}

\* the position of the group an item belongs to
GroupOfItem(groupMap, item) == CHOOSE g \in 1..Len(groupMap) : item \in Range(groupMap[g].val)

\* C2: for a groups mapping and 1 <= length <= number of groups,
\* generateValidCombinations returns exactly the tuples (x_1..x_length) with
\* x_j an item of group g_j for positions g_1 < ... < g_length, each exactly
\* once; every combination has `length` items of pairwise distinct groups; and
\* A=[A1], B=[B1,B2], C=[C1] with length 2 gives the five listed combinations.
C2_GenerateExactlyTheTuples ==
    (op = "generateValidCombinations" /\ 1 <= arg.k /\ arg.k <= MapSize(arg.a)) =>
        LET groupMap == arg.a
            length == arg.k
            wanted == UNION {TuplesOfGroups(groupMap, s) :
                                s \in IncreasingPositions(Len(groupMap), length)}
        IN  /\ Range(ret) = wanted
            /\ Len(ret) = Cardinality(wanted)
            /\ \A c \in 1..Len(ret) :
                  /\ Len(ret[c]) = length
                  /\ \A i, j \in 1..length :
                        i # j => GroupOfItem(groupMap, ret[c][i]) # GroupOfItem(groupMap, ret[c][j])
            /\ (groupMap = expandItems(<<1, 2, 1>>) /\ length = 2) =>
                  Range(ret) = { << <<65, 49>>, <<66, 49>> >>, << <<65, 49>>, <<66, 50>> >>,
                                 << <<65, 49>>, <<67, 49>> >>, << <<66, 49>>, <<67, 49>> >>,
                                 << <<66, 50>>, <<67, 49>> >> }

\* C2 witness: the five combinations of A=[A1], B=[B1,B2], C=[C1], length 2
C2_Witness ==
    /\ op = "generateValidCombinations"
    /\ arg.a = expandItems(<<1, 2, 1>>) /\ arg.k = 2
    /\ Len(ret) = 5

(***************************************************************************)
(* Claims about generateAndStore and withTransaction (checked under Spec). *)
(***************************************************************************)
\* the input the request validation lets through: a non-empty array of
\* integers >= 0 and a length >= 1
ValidatedInput(in) == in.isArray /\ Len(in.items) >= 1 /\ in.length >= 1

\* the number of non-empty groups: the elements of items that are > 0
NonEmptyGroups(items) == Cardinality({i \in 1..Len(items) : items[i] > 0})

EmptyResult == Returned(Null, <<>>)

\* C1 (as claimed): for every validated input, generateAndStore returns the
\* Empty result (identifier null, no combination) whenever length exceeds the
\* number of elements of items that are > 0.
C1_EmptyWhenLengthExceedsNonEmptyGroups ==
    (calls > 0 /\ ValidatedInput(input) /\ input.length > NonEmptyGroups(input.items)) =>
        (pc = "returned" /\ outcome = EmptyResult)

RECURSIVE ProductOver(_, _)
ProductOver(S, sizes) ==
    IF S = {} THEN 1
    ELSE LET g == CHOOSE x \in S : TRUE IN sizes[g] * ProductOver(S \ {g}, sizes)

RECURSIVE SumOfProducts(_, _)
SumOfProducts(family, sizes) ==
    IF family = {} THEN 0
    ELSE LET S == CHOOSE x \in family : TRUE
         IN  ProductOver(S, sizes) + SumOfProducts(family \ {S}, sizes)

\* the sum, over the size-k subsets S of the groups, of the product of the sizes in S
ExpectedCount(sizes, k) ==
    SumOfProducts({S \in SUBSET (1..Len(sizes)) : Cardinality(S) = k}, sizes)

C4_RejectionReasonsAsClaimed ==
    calls > 0 =>
        /\ input.length < 1 =>
              (pc = "rejected" /\ outcome = Thrown("length must be >= 1"))
        /\ (~input.isArray \/ Len(input.items) = 0) =>
              (pc = "rejected" /\ outcome = Thrown("items must be a non-empty array"))
        /\ pc = "rejected" => (log = <<>> /\ held = 0 /\ committed = before)

\* C4 (amended): generateAndStore rejects with "length must be >= 1" when
\* length < 1, and with "items must be a non-empty array" when length >= 1 and
\* items is empty or not an array; a rejected invocation has run no labeling or
\* enumeration and has invoked no persistence operation.
C4_RejectionReasons ==
    calls > 0 =>
        /\ input.length < 1 =>
              (pc = "rejected" /\ outcome = Thrown("length must be >= 1"))
        /\ (input.length >= 1 /\ (~input.isArray \/ Len(input.items) = 0)) =>
              (pc = "rejected" /\ outcome = Thrown("items must be a non-empty array"))
        /\ pc = "rejected" => (log = <<>> /\ held = 0 /\ committed = before)

\* C4 witness: a request whose items is not an array was rejected for its items
C4_Witness ==
    /\ pc = "rejected" /\ ~input.isArray /\ input.length >= 1
    /\ outcome = Thrown("items must be a non-empty array")

\* the positions of the log at which the call `name` ended with `ok`
LogAt(name, ok) == {i \in 1..Len(log) : log[i] = Called(name, ok)}

UnitOfWorkSteps ==
    {"beginTransaction", "insertResponse", "insertItems", "insertCombinations", "commit"}

TransactionFunctionSteps == {"insertResponse", "insertItems", "insertCombinations"}

\* the steps of this invocation that rejected, among `steps`
FailedSteps(steps) == {i \in 1..Len(log) : log[i].op \in steps /\ ~log[i].ok}

RollbackCalls == LogAt("rollback", TRUE) \cup LogAt("rollback", FALSE)

C6_ReleasedExactlyOnce ==
    LET acquired == LogAt("getConnection", TRUE) # {}
        releases == Cardinality(LogAt("release", TRUE))
    IN  /\ releases <= (IF acquired THEN 1 ELSE 0)
        /\ held = (IF acquired /\ releases = 0 THEN 1 ELSE 0)
        /\ (pc \in {"returned", "failed"} /\ acquired) =>
              (releases = 1 /\ log[Len(log)] = Called("release", TRUE))

\* C6 witness: commit failed, then the rollback failed, and the connection was
\* released once
C6_Witness ==
    /\ pc = "failed"
    /\ LogAt("commit", FALSE) # {} /\ LogAt("rollback", FALSE) # {}
    /\ Cardinality(LogAt("release", TRUE)) = 1
    /\ held = 0

\* the error of the step of the transaction function that failed
TransactionFunctionError ==
    log[CHOOSE i \in FailedSteps(TransactionFunctionSteps) : TRUE].op

\* C7 (as claimed): whenever a step of the transaction function fails, the
\* error withTransaction surfaces is that same failure.
C7_SameErrorAsClaimed ==
    (pc = "failed" /\ FailedSteps(TransactionFunctionSteps) # {}) =>
        outcome = Thrown(TransactionFunctionError)

\* C7 (amended): whenever a step of the transaction function fails, the error
\* withTransaction surfaces is that same failure if the rollback succeeds; if
\* the rollback itself fails, the rollback's error is surfaced in its place.
C7_SameErrorUnlessRollbackFails ==
    (pc = "failed" /\ FailedSteps(TransactionFunctionSteps) # {}) =>
        /\ LogAt("rollback", TRUE) # {} => outcome = Thrown(TransactionFunctionError)
        /\ LogAt("rollback", FALSE) # {} => outcome = Thrown("rollback")
        /\ Cardinality(RollbackCalls) = 1

\* C7 witness: insertItems failed, the rollback succeeded, and the caller got
\* the error of insertItems
C7_Witness ==
    /\ pc = "failed"
    /\ LogAt("insertItems", FALSE) # {} /\ LogAt("rollback", TRUE) # {}
    /\ outcome = Thrown("insertItems")

\* the calls of the log that reach the persistence layer
PersistenceCalls ==
    {"getConnection", "beginTransaction", "insertResponse", "insertItems",
     "insertCombinations", "commit", "rollback", "release"}

PersistenceLog == SelectSeq(log, LAMBDA e : e.op \in PersistenceCalls)

\* C11: whenever generateAndStore returns the Empty result (identifier absent,
\* no combination), persistence was not touched during the invocation: no
\* connection acquired, no unit of work begun, no request, item or combination
\* recorded.
C11_EmptyResultTouchesNoPersistence ==
    (pc = "returned" /\ outcome = EmptyResult) =>
        /\ PersistenceLog = <<>>
        /\ held = 0
        /\ committed = before

\* C11 witness: items=[1,1], length=3 returned the Empty result
C11_Witness ==
    /\ pc = "returned" /\ outcome = EmptyResult
    /\ input.items = <<1, 1>> /\ input.length = 3

\* the invocation went on to persistence (the Computed state)
Computed == LogAt("getConnection", TRUE) # {} \/ LogAt("getConnection", FALSE) # {}

\* C13: a successful Computed request performs its persistence steps exactly
\* once each and in this order: acquire connection, begin, RecordRequest (raw
\* items and length, yielding the identifier), UpsertItems, UpsertCombinations
\* under that identifier, commit, release; rollback is not invoked, and the
\* identifier returned is the one RecordRequest produced.
C13_SuccessfulRequestStepsInOrder ==
    (pc = "returned" /\ Computed) =>
        /\ PersistenceLog =
              << Called("getConnection", TRUE), Called("beginTransaction", TRUE),
                 Called("insertResponse", TRUE), Called("insertItems", TRUE),
                 Called("insertCombinations", TRUE), Called("commit", TRUE),
                 Called("release", TRUE) >>
        /\ outcome.id # Null
        /\ committed.responses \ before.responses =
              {[id |-> outcome.id[1],
                request_json |-> JsonStringifyNumbers(input.items),
                length |-> input.length]}
        /\ \A r \in committed.combinations \ before.combinations :
              r.response_id = outcome.id[1]
        /\ Cardinality(committed.combinations \ before.combinations) > 0
              <=> Len(outcome.combination) > 0

\* C13 witness: items=[1,1], length=2 was stored and returned under identifier 1
C13_Witness ==
    /\ pc = "returned" /\ input.items = <<1, 1>> /\ input.length = 2
    /\ outcome.id = Some(1)
    /\ Len(PersistenceLog) = 7

CommitCalls == LogAt("commit", TRUE) \cup LogAt("commit", FALSE)

\* C14: in every execution of withTransaction, commit is invoked at most once
\* and only after beginTransaction and the transaction function both
\* succeeded; rollback is invoked exactly once if and only if beginTransaction,
\* the transaction function or commit failed; when the transaction function
\* fails commit is never invoked, and commit is never invoked after rollback.
C14_CommitAndRollbackDiscipline ==
    /\ Cardinality(CommitCalls) <= 1
    /\ Cardinality(RollbackCalls) <= 1
    /\ \A i \in CommitCalls :
          /\ \A name \in {"beginTransaction", "insertResponse", "insertItems",
                          "insertCombinations"} :
                \E j \in LogAt(name, TRUE) : j < i
          /\ \A j \in RollbackCalls : i < j
    /\ FailedSteps(TransactionFunctionSteps) # {} => CommitCalls = {}
    /\ \A j \in RollbackCalls : \E f \in FailedSteps(UnitOfWorkSteps) : f < j
    /\ (pc \in {"returned", "failed"} /\ LogAt("getConnection", TRUE) # {}) =>
          (Cardinality(RollbackCalls) = 1 <=> FailedSteps(UnitOfWorkSteps) # {})

\* C14 witness: commit was invoked and failed, then rollback was invoked once
C14_Witness ==
    /\ pc = "failed"
    /\ LogAt("commit", FALSE) # {}
    /\ LogAt("rollback", TRUE) # {}

\* the CombinationKey of a combination: its item labels sorted and joined with '|'
CombinationKeyOf(c) ==
    LET sorted == CHOOSE q \in Orderings(c) :
                     \A i \in 1..(Len(q) - 1) : ~StrLess(q[i + 1], q[i])
    IN  Join(sorted, <<124>>)

\* C18: for every valid input with at most 26 groups, the combinations of one
\* generateAndStore call have pairwise distinct CombinationKeys, so the number
\* of combination rows stored under the new identifier equals the number of
\* combinations returned.
C18_KeysDistinctWithinRequest ==
    (calls > 0 /\ ValidatedInput(input) /\ Len(input.items) <= 26) =>
        /\ Cardinality({CombinationKeyOf(allCombos[i]) : i \in 1..Len(allCombos)})
              = Len(allCombos)
        /\ (pc = "returned" /\ outcome.id # Null) =>
              /\ outcome.combination = allCombos
              /\ Cardinality({r \in committed.combinations :
                                 r.response_id = outcome.id[1]})
                    = Len(outcome.combination)
              /\ {r.combination_key : r \in {q \in committed.combinations :
                                                q.response_id = outcome.id[1]}}
                    = {CombinationKeyOf(allCombos[i]) : i \in 1..Len(allCombos)}

\* C18 witness: items=[1,1], length=1 returned two combinations and two rows
\* are stored under its identifier
C18_Witness ==
    /\ pc = "returned" /\ input.items = <<1, 1>> /\ input.length = 1
    /\ outcome.id # Null
    /\ Cardinality({r \in committed.combinations : r.response_id = outcome.id[1]}) = 2

\* the labels of a groups mapping, each with its group and its place in it
ItemRowsOf(groupMap) ==
    UNION {{[code |-> groupMap[g].val[j], prefix |-> groupMap[g].key, idx |-> Some(j)] :
               j \in 1..Len(groupMap[g].val)} : g \in 1..Len(groupMap)}

Codes(rows) == {r.code : r \in rows}

\* C16: insertItems is an idempotent insert-ignoring-duplicates keyed by item
\* label: after it every item label of groups is stored with its group prefix
\* and 1-based index, every item row that existed before is untouched, applying
\* it twice gives the same store as applying it once, it issues no write when
\* groups is empty, and over a sequence of calls the stored labels only grow.
C16_InsertItemsIdempotentInsertIgnore ==
    op = "insertItems" =>
        /\ ItemRowsOf(arg.a) \subseteq committed.items
        /\ before.items \subseteq committed.items
        /\ committed.items \subseteq before.items \cup ItemRowsOf(arg.a)
        /\ \A r, q \in committed.items : r.code = q.code => r = q
        /\ insertItems(committed.items, arg.a).rows = committed.items
        /\ arg.a = <<>> => (ret = <<>> /\ committed = before)
        /\ Len(ret) <= 1
        /\ Codes(before.items) \subseteq Codes(committed.items)
        /\ committed.combinations = before.combinations
        /\ committed.responses = before.responses

\* C16 witness: a second call found some of its labels stored and added others
C16_Witness ==
    /\ op = "insertItems"
    /\ Codes(before.items) \cap Codes(ItemRowsOf(arg.a)) # {}
    /\ Codes(ItemRowsOf(arg.a)) \ Codes(before.items) # {}
    /\ Codes(before.items) \ Codes(ItemRowsOf(arg.a)) # {}

\* the rows of one identifier
RowsOf(rows, id) == {r \in rows : r.response_id = id}

\* the last place of a list holding a combination of this key
LastWithKey(combos, key) ==
    CHOOSE i \in 1..Len(combos) :
        /\ CombinationKeyOf(combos[i]) = key
        /\ \A l \in (i + 1)..Len(combos) : CombinationKeyOf(combos[l]) # key

KeysOf(combos) == {CombinationKeyOf(combos[i]) : i \in 1..Len(combos)}

\* C15: after insertCombinations(identifier, combos) the store holds for that
\* identifier exactly one row per distinct CombinationKey of combos (the labels
\* sorted and joined with '|'), whose payload is the last combination of combos
\* with that key; rows of other identifiers are unchanged; running it again
\* with the same arguments leaves the store unchanged; with empty combos no
\* write is issued.
C15_InsertCombinationsUpsert ==
    op = "insertCombinations" =>
        LET id == arg.k
            combos == arg.a
            mine == RowsOf(committed.combinations, id)
        IN  /\ \A key \in KeysOf(combos) :
                  /\ Cardinality({r \in mine : r.combination_key = key}) = 1
                  /\ \A r \in mine :
                        r.combination_key = key =>
                           r.combination_json =
                              JsonStringifyStrings(combos[LastWithKey(combos, key)])
            /\ {r \in mine : r.combination_key \notin KeysOf(combos)}
                  = {r \in RowsOf(before.combinations, id) :
                        r.combination_key \notin KeysOf(combos)}
            /\ committed.combinations \ mine
                  = before.combinations \ RowsOf(before.combinations, id)
            /\ insertCombinations(committed.combinations, id, combos).rows
                  = committed.combinations
            /\ combos = <<>> => (ret = <<>> /\ committed = before)
            /\ \A c, d \in ComboPool :
                  c # d => JsonStringifyStrings(c) # JsonStringifyStrings(d)
            /\ committed.items = before.items
            /\ committed.responses = before.responses

\* C15 witness: a call whose list holds one key twice with different payloads,
\* on a store that held a row of that key and rows of another identifier
C15_Witness ==
    /\ op = "insertCombinations"
    /\ Len(arg.a) = 2 /\ arg.a[1] # arg.a[2]
    /\ CombinationKeyOf(arg.a[1]) = CombinationKeyOf(arg.a[2])
    /\ \E r \in RowsOf(before.combinations, arg.k) :
          /\ r.combination_key = CombinationKeyOf(arg.a[1])
          /\ r.combination_json # JsonStringifyStrings(arg.a[2])
    /\ before.combinations \ RowsOf(before.combinations, arg.k) # {}

\* the chunk sizes the stored state is compared under
OtherChunks(n) ==
    IF n <= ChunkMaxShort THEN 1..(n + 1)
    ELSE {(CHUNK \div 2) + 1, CHUNK + 1}

\* C17: for a list of n > 0 combinations insertCombinations issues exactly
\* ceil(n / CHUNK) physical writes, each of 1..CHUNK entries, and the entries of
\* the successive writes in order are exactly the input list; the final stored
\* state is the same for any chunk size >= 1.
C17_ChunkedWrites ==
    (op = "insertCombinations" /\ arg.kind = "insertCombinations") =>
        LET combos == arg.a
            n == Len(combos)
            queries == ret.queries
            written == Flat(queries)
        IN  /\ Len(queries) = (n + CHUNK - 1) \div CHUNK
            /\ \A q \in 1..Len(queries) : Len(queries[q]) \in 1..CHUNK
            /\ Len(written) = n
            /\ \A i \in 1..n :
                  /\ written[i].response_id = arg.k
                  /\ written[i].combination_json = JsonStringifyStrings(combos[i])
                  /\ written[i].combination_key = CombinationKeyOf(combos[i])
            /\ \A chunk \in OtherChunks(n) :
                  insertCombinationsChunked(arg.rows, arg.k, combos, chunk).rows = ret.rows

\* C17 witness: a list of 2 * CHUNK + 1 combinations was written in three writes
C17_Witness ==
    /\ op = "insertCombinations" /\ arg.kind = "insertCombinations"
    /\ Len(arg.a) = 2 * CHUNK + 1
    /\ Len(ret.queries) = 3
    /\ Len(ret.queries[3]) = 1

\* the invocation holds a connection: between getConnection and release
Holding(p) ==
    proc[p].pc \in {"beginTransaction", "insertResponse", "insertItems",
                    "insertCombinations", "commit", "rollback"}

\* C12: under every interleaving of two concurrent generateAndStore /
\* withTransaction calls each call acquires its own connection, each returns
\* the result of its own computation (the combination list it returns when run
\* alone), and no begin, commit, rollback, release or query of one call is
\* applied to the connection of the other.
C12_ConcurrentInvocationsIndependent ==
    /\ \A p, q \in Procs :
          (p # q /\ Holding(p) /\ Holding(q)) => proc[p].conn # proc[q].conn
    /\ \A p \in Procs : Holding(p) => pool.conns[proc[p].conn].holder = p
    /\ \A c \in 1..Len(pool.conns) :
          \A i \in 1..Len(pool.conns[c].ops) :
             pool.conns[c].ops[i].by = pool.conns[c].ops[i].holder
    /\ \A p \in Procs :
          proc[p].outcome.kind = "return" =>
             /\ proc[p].outcome.combination =
                   IF proc[p].input.length > Len(proc[p].input.items) THEN <<>>
                   ELSE generateValidCombinations(expandItems(proc[p].input.items),
                                                  proc[p].input.length)
             /\ proc[p].outcome.id # Null =>
                   /\ {r.combination_key :
                          r \in RowsOf(committed.combinations, proc[p].outcome.id[1])}
                         = KeysOf(proc[p].outcome.combination)
                   /\ [id |-> proc[p].outcome.id[1],
                       request_json |-> JsonStringifyNumbers(proc[p].input.items),
                       length |-> proc[p].input.length] \in committed.responses
    /\ \A p, q \in Procs :
          (p # q /\ proc[p].outcome.id # Null /\ proc[q].outcome.id # Null)
             => proc[p].outcome.id # proc[q].outcome.id

\* C12 witness: two invocations with different requests held two connections
\* at the same time and both returned their own combinations
C12_Witness ==
    /\ proc[1].pc = "returned" /\ proc[2].pc = "returned"
    /\ proc[1].outcome.id # Null /\ proc[2].outcome.id # Null
    /\ proc[1].conn # proc[2].conn
    /\ proc[1].outcome.combination # proc[2].outcome.combination
    /\ proc[1].outcome.id = Some(2)

====
